---- MODULE Spec2Model ----
(***************************************************************************)
(* Model of package log (src/log.go): a process-wide singleton logger      *)
(* that renders leveled records through a text/template and writes them    *)
(* to one io.Writer under a mutex.                                         *)
(*                                                                         *)
(* Goroutines of the host program are the processes of the model.  Each    *)
(* statement of the package that other goroutines can observe (a mutex     *)
(* operation, one Write issued by template.Execute, one io.WriteString of  *)
(* Trace, os.Exit) is one action.                                          *)
(***************************************************************************)
EXTENDS Integers, Sequences, FiniteSets, TLC

(***************************************************************************)
(* Bounds of the model.                                                    *)
(***************************************************************************)
NumProcs == 2
MaxOps == 2

Procs == 1..NumProcs

(***************************************************************************)
(* Program constants.                                                      *)
(***************************************************************************)
levelDebug == 0
levelInfo == 1
levelWarn == 2
levelError == 3
levelFatal == 4

Levels == {levelDebug, levelInfo, levelWarn, levelError, levelFatal}

\* logLevel is a package variable of type int: every rank and one value
\* above all of them.
Thresholds == levelDebug..(levelFatal + 1)

errInvalidLogLevel == "logger: invalid log level"
errWrite == "write error"
NoErr == ""

Nil == "nil"

\* The byte sinks of the host: standard output and one more destination
\* whose writes can fail (disk full, closed file).
Stdout == "os.Stdout"
Writers == {Stdout, "file"}
MayFail == {"file"}

\* Values of the environment variable IIGSDEBUG.
EnvValues == {"", "1"}

\* The clock read by Now.
Clocks ==
  { [Y |-> 2024, M |-> 1, D |-> 2, h |-> 3, m |-> 4, s |-> 5, ns |-> 0,
     zone |-> "UTC", off |-> 0] }

\* Call sites of the host program: the format and arguments it passes and
\* the frames of its goroutine above the entry point (innermost first).
\* The second one is a call for which runtime.Caller finds no frame at the
\* depth it is asked for.
CallSites ==
  << [format |-> "user %s logged in",
      args |-> << [type |-> "string", s |-> "alice", n |-> 0] >>,
      frames |-> << [file |-> <<"srv", "app", "main.go">>, line |-> 42] >>],
     [format |-> "ready", args |-> <<>>, frames |-> <<>>] >>

\* Each goroutine logs from one call site, so concurrent callers log
\* distinct messages.
SiteOf(p) == CallSites[((p - 1) % Len(CallSites)) + 1]

TraceArgs == { [url |-> "http://h/x", code |-> 200, result |-> "ok"] }

(***************************************************************************)
(* colors package (external collaborator).                                 *)
(***************************************************************************)
Decorate(text, kind) == "<" \o kind \o ">" \o text \o "</" \o kind \o ">"
CyanBold(text) == Decorate(text, "CyanBold")
GreenBold(text) == Decorate(text, "GreenBold")
YellowBold(text) == Decorate(text, "YellowBold")
RedBold(text) == Decorate(text, "RedBold")
MagentaBold(text) == Decorate(text, "MagentaBold")

NewColorWriter(w) == [kind |-> "ColorWriter", under |-> w]
NoWriter == [kind |-> "nil", under |-> Nil]
\* The sink that receives the bytes written to a color writer.
Under(cw) == cw.under

(***************************************************************************)
(* Pure functions of the package and of the library calls it makes.        *)
(***************************************************************************)
(***************************************************************************)
(* Strings, character by character.                                        *)
(***************************************************************************)
At(s, i) == SubSeq(s, i, i)
HasAt(s, i, x) == i + Len(x) - 1 <= Len(s) /\ SubSeq(s, i, i + Len(x) - 1) = x

DecDigits == {"0", "1", "2", "3", "4", "5", "6", "7", "8", "9"}
LowerCase ==
  {"a", "b", "c", "d", "e", "f", "g", "h", "i", "j", "k", "l", "m", "n", "o",
   "p", "q", "r", "s", "t", "u", "v", "w", "x", "y", "z"}

RECURSIVE Repeat(_, _)
Repeat(c, n) == IF n <= 0 THEN "" ELSE c \o Repeat(c, n - 1)

\* Integer division as Go performs it, truncating toward zero.
Quo(a, b) == IF a >= 0 THEN a \div b ELSE 0 - ((0 - a) \div b)

\* The remainder as Go takes it: it has the sign of the dividend.
Rem(a, b) == a - b * Quo(a, b)

(***************************************************************************)
(* time.Time.Format, as Now calls it.                                      *)
(***************************************************************************)
\* appendInt(b, x, width): the decimal digits of x, zero-padded to width,
\* after the sign.
appendInt(x, width) ==
  LET u == IF x < 0 THEN 0 - x ELSE x
      d == ToString(u)
  IN (IF x < 0 THEN "-" ELSE "") \o Repeat("0", width - Len(d)) \o d

longMonthNames ==
  << "January", "February", "March", "April", "May", "June", "July",
     "August", "September", "October", "November", "December" >>
longDayNames ==
  << "Sunday", "Monday", "Tuesday", "Wednesday", "Thursday", "Friday",
     "Saturday" >>

\* Time.Weekday (0 is Sunday) and Time.YearDay of a civil date.
IsLeap(y) == y % 4 = 0 /\ (y % 100 # 0 \/ y % 400 = 0)
DaysBefore ==
  << 0, 31, 59, 90, 120, 151, 181, 212, 243, 273, 304, 334 >>
YearDay(t) ==
  DaysBefore[t.M] + t.D + (IF t.M > 2 /\ IsLeap(t.Y) THEN 1 ELSE 0)
Weekday(t) ==
  LET y == t.Y - 1
      days == 365 * y + y \div 4 - y \div 100 + y \div 400 + YearDay(t)
  IN days % 7

\* nextStdChunk: the reference element that starts at position i of the
\* layout (std is "" when none does), its length in the layout and, for
\* fractional seconds, its number of digits.
NoStd == [std |-> "", len |-> 0, digits |-> 0]
Std(std, len) == [std |-> std, len |-> len, digits |-> 0]
StartsWithLowerCase(s, i) == i <= Len(s) /\ At(s, i) \in LowerCase

RECURSIVE RunEnd(_, _, _)
RunEnd(s, j, ch) ==
  IF j <= Len(s) /\ At(s, j) = ch THEN RunEnd(s, j + 1, ch) ELSE j

std0x(c) ==
  CASE c = "1" -> "stdZeroMonth"
    [] c = "2" -> "stdZeroDay"
    [] c = "3" -> "stdZeroHour12"
    [] c = "4" -> "stdZeroMinute"
    [] c = "5" -> "stdZeroSecond"
    [] c = "6" -> "stdYear"

nextStdChunk(s, i) ==
  LET c == At(s, i)
  IN CASE c = "J" ->
            IF HasAt(s, i, "January") THEN Std("stdLongMonth", 7)
            ELSE IF HasAt(s, i, "Jan") /\ ~StartsWithLowerCase(s, i + 3)
            THEN Std("stdMonth", 3)
            ELSE NoStd
       [] c = "M" ->
            IF HasAt(s, i, "Monday") THEN Std("stdLongWeekDay", 6)
            ELSE IF HasAt(s, i, "Mon") /\ ~StartsWithLowerCase(s, i + 3)
            THEN Std("stdWeekDay", 3)
            ELSE IF HasAt(s, i, "MST") THEN Std("stdTZ", 3)
            ELSE NoStd
       [] c = "0" ->
            IF i + 1 <= Len(s)
               /\ At(s, i + 1) \in {"1", "2", "3", "4", "5", "6"}
            THEN Std(std0x(At(s, i + 1)), 2)
            ELSE IF HasAt(s, i, "002") THEN Std("stdZeroYearDay", 3)
            ELSE NoStd
       [] c = "1" ->
            IF HasAt(s, i, "15") THEN Std("stdHour", 2)
            ELSE Std("stdNumMonth", 1)
       [] c = "2" ->
            IF HasAt(s, i, "2006") THEN Std("stdLongYear", 4)
            ELSE Std("stdDay", 1)
       [] c = "_" ->
            IF HasAt(s, i, "_2006") THEN NoStd
            ELSE IF HasAt(s, i, "_2") THEN Std("stdUnderDay", 2)
            ELSE IF HasAt(s, i, "__2") THEN Std("stdUnderYearDay", 3)
            ELSE NoStd
       [] c = "3" -> Std("stdHour12", 1)
       [] c = "4" -> Std("stdMinute", 1)
       [] c = "5" -> Std("stdSecond", 1)
       [] c = "P" -> IF HasAt(s, i, "PM") THEN Std("stdPM", 2) ELSE NoStd
       [] c = "p" -> IF HasAt(s, i, "pm") THEN Std("stdpm", 2) ELSE NoStd
       [] c = "-" ->
            IF HasAt(s, i, "-070000") THEN Std("stdNumSecondsTz", 7)
            ELSE IF HasAt(s, i, "-07:00:00")
            THEN Std("stdNumColonSecondsTZ", 9)
            ELSE IF HasAt(s, i, "-0700") THEN Std("stdNumTZ", 5)
            ELSE IF HasAt(s, i, "-07:00") THEN Std("stdNumColonTZ", 6)
            ELSE IF HasAt(s, i, "-07") THEN Std("stdNumShortTZ", 3)
            ELSE NoStd
       [] c = "Z" ->
            IF HasAt(s, i, "Z070000") THEN Std("stdISO8601SecondsTZ", 7)
            ELSE IF HasAt(s, i, "Z07:00:00")
            THEN Std("stdISO8601ColonSecondsTZ", 9)
            ELSE IF HasAt(s, i, "Z0700") THEN Std("stdISO8601TZ", 5)
            ELSE IF HasAt(s, i, "Z07:00") THEN Std("stdISO8601ColonTZ", 6)
            ELSE IF HasAt(s, i, "Z07") THEN Std("stdISO8601ShortTZ", 3)
            ELSE NoStd
       [] c \in {".", ","} ->
            IF i + 1 <= Len(s) /\ At(s, i + 1) \in {"0", "9"}
            THEN LET j == RunEnd(s, i + 1, At(s, i + 1))
                 IN IF j <= Len(s) /\ At(s, j) \in DecDigits THEN NoStd
                    ELSE [std |-> IF At(s, i + 1) = "0" THEN "stdFracSecond0"
                                  ELSE "stdFracSecond9",
                          len |-> j - i, digits |-> j - (i + 1)]
            ELSE NoStd
       [] OTHER -> NoStd

\* appendNano: the fractional second, after its separator.
RECURSIVE TrimLen(_, _)
TrimLen(d, n) == IF n > 0 /\ At(d, n) = "0" THEN TrimLen(d, n - 1) ELSE n
TrimZeros(d) == SubSeq(d, 1, TrimLen(d, Len(d)))

appendNano(ns, sep, digits, trim) ==
  IF trim /\ (digits = 0 \/ ns = 0) THEN ""
  ELSE LET all == appendInt(ns, 9)
           cut == IF digits < 9 THEN SubSeq(all, 1, digits) ELSE all
       IN IF trim
          THEN (IF TrimZeros(cut) = "" THEN "" ELSE sep \o TrimZeros(cut))
          ELSE sep \o cut

\* The zone offset in the numeric forms.
appendZone(off, colon, minutes, seconds) ==
  LET zone == Quo(off, 60)
      az == IF zone < 0 THEN 0 - zone ELSE zone
      absoffset == IF zone < 0 THEN 0 - off ELSE off
  IN (IF zone < 0 THEN "-" ELSE "+")
     \o appendInt(Quo(az, 60), 2)
     \o (IF colon THEN ":" ELSE "")
     \o (IF minutes THEN appendInt(Rem(az, 60), 2) ELSE "")
     \o (IF seconds
         THEN (IF colon THEN ":" ELSE "") \o appendInt(Rem(absoffset, 60), 2)
         ELSE "")

\* What Format appends for one reference element.
appendStd(t, c, sep) ==
  LET std == c.std
      hr == IF t.h % 12 = 0 THEN 12 ELSE t.h % 12
      yday == YearDay(t)
      colon == std \in {"stdISO8601ColonTZ", "stdNumColonTZ",
                        "stdISO8601ColonSecondsTZ", "stdNumColonSecondsTZ"}
      short == std \in {"stdNumShortTZ", "stdISO8601ShortTZ"}
      secs == std \in {"stdISO8601SecondsTZ", "stdNumSecondsTz",
                       "stdNumColonSecondsTZ", "stdISO8601ColonSecondsTZ"}
      iso == std \in {"stdISO8601TZ", "stdISO8601ColonTZ",
                      "stdISO8601SecondsTZ", "stdISO8601ShortTZ",
                      "stdISO8601ColonSecondsTZ"}
      num == std \in {"stdNumTZ", "stdNumColonTZ", "stdNumSecondsTz",
                      "stdNumShortTZ", "stdNumColonSecondsTZ"}
  IN CASE std = "stdYear" ->
            appendInt(Rem(IF t.Y < 0 THEN 0 - t.Y ELSE t.Y, 100), 2)
       [] std = "stdLongYear" -> appendInt(t.Y, 4)
       [] std = "stdMonth" -> SubSeq(longMonthNames[t.M], 1, 3)
       [] std = "stdLongMonth" -> longMonthNames[t.M]
       [] std = "stdNumMonth" -> appendInt(t.M, 0)
       [] std = "stdZeroMonth" -> appendInt(t.M, 2)
       [] std = "stdWeekDay" -> SubSeq(longDayNames[Weekday(t) + 1], 1, 3)
       [] std = "stdLongWeekDay" -> longDayNames[Weekday(t) + 1]
       [] std = "stdDay" -> appendInt(t.D, 0)
       [] std = "stdUnderDay" ->
            (IF t.D < 10 THEN " " ELSE "") \o appendInt(t.D, 0)
       [] std = "stdZeroDay" -> appendInt(t.D, 2)
       [] std = "stdUnderYearDay" ->
            (IF yday < 100 THEN " " ELSE "") \o (IF yday < 10 THEN " " ELSE "")
            \o appendInt(yday, 0)
       [] std = "stdZeroYearDay" -> appendInt(yday, 3)
       [] std = "stdHour" -> appendInt(t.h, 2)
       [] std = "stdHour12" -> appendInt(hr, 0)
       [] std = "stdZeroHour12" -> appendInt(hr, 2)
       [] std = "stdMinute" -> appendInt(t.m, 0)
       [] std = "stdZeroMinute" -> appendInt(t.m, 2)
       [] std = "stdSecond" -> appendInt(t.s, 0)
       [] std = "stdZeroSecond" -> appendInt(t.s, 2)
       [] std = "stdPM" -> IF t.h >= 12 THEN "PM" ELSE "AM"
       [] std = "stdpm" -> IF t.h >= 12 THEN "pm" ELSE "am"
       [] iso /\ t.off = 0 -> "Z"
       [] (iso /\ t.off # 0) \/ num -> appendZone(t.off, colon, ~short, secs)
       [] std = "stdTZ" ->
            IF t.zone # "" THEN t.zone
            ELSE appendZone(t.off, FALSE, TRUE, FALSE)
       [] std = "stdFracSecond0" -> appendNano(t.ns, sep, c.digits, FALSE)
       [] std = "stdFracSecond9" -> appendNano(t.ns, sep, c.digits, TRUE)

\* Time.Format: the layout with every reference element replaced;
\* appendFormat[i] is the text produced from position i of the layout on.
Format(t, layout) ==
  LET appendFormat[i \in 1..(Len(layout) + 1)] ==
        IF i > Len(layout) THEN ""
        ELSE LET c == nextStdChunk(layout, i)
             IN IF c.len = 0
                THEN At(layout, i) \o appendFormat[i + 1]
                ELSE appendStd(t, c, At(layout, i))
                     \o appendFormat[i + c.len]
  IN appendFormat[1]

Now(t, layout) == Format(t, layout)

EndLine == "\n"

getLevelTag(level) ==
  CASE level = levelDebug -> "DEBUG"
    [] level = levelInfo -> "INFO "
    [] level = levelWarn -> "WARN "
    [] level = levelError -> "ERROR"
    [] level = levelFatal -> "FATAL"
    [] OTHER -> errInvalidLogLevel

\* A lookup whose default branch returns a tag instead of panicking.
getColorLevel_Default(level) ==
  CASE level = levelDebug -> CyanBold(getLevelTag(level))
    [] level = levelInfo -> GreenBold(getLevelTag(level))
    [] level = levelWarn -> YellowBold(getLevelTag(level))
    [] level = levelError -> RedBold(getLevelTag(level))
    [] level = levelFatal -> MagentaBold(getLevelTag(level))
    [] OTHER -> "?????"

getColorLevel(level) ==
  CASE level = levelDebug -> CyanBold(getLevelTag(level))
    [] level = levelInfo -> GreenBold(getLevelTag(level))
    [] level = levelWarn -> YellowBold(getLevelTag(level))
    [] level = levelError -> RedBold(getLevelTag(level))
    [] level = levelFatal -> MagentaBold(getLevelTag(level))
    [] OTHER -> errInvalidLogLevel

\* getColorLevel panics with errInvalidLogLevel instead of returning.
LevelPanics(level) == getColorLevel(level) = errInvalidLogLevel

\* Levels mustLog can be given by code of the package that no entry point
\* passes: the int below the lowest rank and the one above the highest.
OtherLevels == {levelDebug - 1, levelFatal + 1}

(***************************************************************************)
(* fmt.Sprintf, as mustLog and Trace call it.  The format is read          *)
(* character by character as doPrintf reads it; an operand is a string or  *)
(* an int.  The flag "+" is the only one these formats use: the other      *)
(* flags, widths, precisions and argument indexes are outside the model,   *)
(* and Sprintf is left undefined on them.                                  *)
(***************************************************************************)
StringArg(s) == [type |-> "string", s |-> s, n |-> 0]
IntArg(n) == [type |-> "int", s |-> "", n |-> n]

\* The printable ASCII characters in code order, in two runs: from the
\* space (32) to the underscore (95) and from "a" (97) to the tilde (126).
AsciiLow ==
  " !\"#$%&'()*+,-./0123456789:;<=>?@ABCDEFGHIJKLMNOPQRSTUVWXYZ[\\]^_"
AsciiHigh == "abcdefghijklmnopqrstuvwxyz{|}~"
LowBase == 31
HighBase == 96
IndexIn(s, c) == CHOOSE k \in 1..Len(s) : At(s, k) = c
Within(s, c) == \E k \in 1..Len(s) : At(s, k) = c
CodeOf(c) ==
  CASE c = "\t" -> 9
    [] c = "\n" -> 10
    [] Within(AsciiLow, c) -> LowBase + IndexIn(AsciiLow, c)
    [] Within(AsciiHigh, c) -> HighBase + IndexIn(AsciiHigh, c)
CharOf(n) ==
  CASE n = 9 -> "\t"
    [] n = 10 -> "\n"
    [] n - LowBase \in 1..Len(AsciiLow) -> At(AsciiLow, n - LowBase)
    [] n - HighBase \in 1..Len(AsciiHigh) -> At(AsciiHigh, n - HighBase)

ldigits == "0123456789abcdefx"
udigits == "0123456789ABCDEFX"

\* The digits of u >= 0 in a base.
RECURSIVE Digits(_, _, _)
Digits(u, base, digits) ==
  IF u < base THEN At(digits, u + 1)
  ELSE Digits(u \div base, base, digits) \o At(digits, (u % base) + 1)

\* fmt.fmtInteger without width or precision: sign, prefix, digits.
fmtInteger(n, base, verb, digits, plus) ==
  (IF n < 0 THEN "-" ELSE IF plus THEN "+" ELSE "")
  \o (IF verb = "O" THEN "0o" ELSE "")
  \o Digits(IF n < 0 THEN 0 - n ELSE n, base, digits)

\* strconv.Quote and strconv.QuoteRune on the characters of the model.
QuoteChar(c, quote) ==
  CASE c = "\n" -> "\\n"
    [] c = "\t" -> "\\t"
    [] c = "\\" -> "\\\\"
    [] c = quote -> "\\" \o quote
    [] OTHER -> c

RECURSIVE QuoteFrom(_, _)
QuoteFrom(s, i) ==
  IF i > Len(s) THEN ""
  ELSE QuoteChar(At(s, i), "\"") \o QuoteFrom(s, i + 1)

fmtQ(s) == "\"" \o QuoteFrom(s, 1) \o "\""
fmtQc(n) == "'" \o QuoteChar(CharOf(n), "'") \o "'"

\* fmt.fmtSx: two hexadecimal digits for each byte of the string.
RECURSIVE fmtSx(_, _, _)
fmtSx(s, i, digits) ==
  IF i > Len(s) THEN ""
  ELSE At(digits, (CodeOf(At(s, i)) \div 16) + 1)
       \o At(digits, (CodeOf(At(s, i)) % 16) + 1)
       \o fmtSx(s, i + 1, digits)

\* fmt.fmtUnicode of a code point that is not negative.
fmtUnicode(n) ==
  LET d == Digits(n, 16, udigits)
  IN CASE n >= 0 -> "U+" \o Repeat("0", 4 - Len(d)) \o d

\* pp.badVerb: the operand printed with %v under the flags still set.
badVerb(arg, verb, plus) ==
  "%!" \o verb \o "(" \o arg.type \o "="
  \o (IF arg.type = "string" THEN arg.s
      ELSE fmtInteger(arg.n, 10, "v", ldigits, plus))
  \o ")"

\* pp.printArg of one operand under a verb; plus is the "+" flag as the
\* format gives it.  For the verbs v and w doPrintf moves the flag to plusV
\* before it prints, and strings and ints ignore plusV: sign is the flag
\* that is still set when the operand is printed.
printArg(arg, verb, plus) ==
  LET sign == plus /\ verb \notin {"v", "w"}
  IN CASE verb = "T" -> arg.type
       [] verb # "T" /\ arg.type = "string" ->
            CASE verb \in {"v", "s"} -> arg.s
              [] verb = "x" -> fmtSx(arg.s, 1, ldigits)
              [] verb = "X" -> fmtSx(arg.s, 1, udigits)
              [] verb = "q" -> fmtQ(arg.s)
              [] OTHER -> badVerb(arg, verb, sign)
       [] verb # "T" /\ arg.type = "int" ->
            CASE verb = "v" -> fmtInteger(arg.n, 10, verb, ldigits, sign)
              [] verb = "d" -> fmtInteger(arg.n, 10, verb, ldigits, sign)
              [] verb = "b" -> fmtInteger(arg.n, 2, verb, ldigits, sign)
              [] verb \in {"o", "O"} ->
                   fmtInteger(arg.n, 8, verb, ldigits, sign)
              [] verb = "x" -> fmtInteger(arg.n, 16, verb, ldigits, sign)
              [] verb = "X" -> fmtInteger(arg.n, 16, verb, udigits, sign)
              [] verb = "c" -> CharOf(arg.n)
              [] verb = "q" -> fmtQc(arg.n)
              [] verb = "U" -> fmtUnicode(arg.n)
              [] OTHER -> badVerb(arg, verb, sign)

\* The tail of doPrintf: the operands from argNum on, which no verb
\* consumed (argNum counts from 0 as in the source).
RECURSIVE ExtraArgs(_, _, _)
ExtraArgs(args, argNum, k) ==
  IF k > Len(args) THEN ""
  ELSE (IF k > argNum + 1 THEN ", " ELSE "")
       \o args[k].type \o "=" \o printArg(args[k], "v", FALSE)
       \o ExtraArgs(args, argNum, k + 1)

extraString(args, argNum) ==
  IF argNum >= Len(args) THEN ""
  ELSE "%!(EXTRA " \o ExtraArgs(args, argNum, argNum + 1) \o ")"

\* What may follow "%" and its "+" flags in the model: any character that
\* does not start a flag, a width, a precision or an argument index.
Unmodelled ==
  DecDigits \cup {"#", "-", " ", ".", "[", "*"}

\* fmt.Sprintf: doPrintf[i, argNum] is the text the main loop of doPrintf
\* produces from position i of the format on, with argNum operands consumed.
Sprintf(format, args) ==
  LET doPrintf[i \in 1..(Len(format) + 1), argNum \in 0..Len(args)] ==
        IF i > Len(format) THEN extraString(args, argNum)
        ELSE IF At(format, i) # "%"
        THEN At(format, i) \o doPrintf[i + 1, argNum]
        ELSE LET j == RunEnd(format, i + 1, "+")
                 plus == j > i + 1
                 verb == At(format, j)
             IN IF j > Len(format)
                THEN "%!(NOVERB)" \o extraString(args, argNum)
                ELSE CASE verb = "%" -> "%" \o doPrintf[j + 1, argNum]
                       [] verb \notin Unmodelled \cup {"%"}
                          /\ argNum >= Len(args) ->
                            "%!" \o verb \o "(MISSING)"
                            \o doPrintf[j + 1, argNum]
                       [] verb \notin Unmodelled \cup {"%"}
                          /\ argNum < Len(args) ->
                            printArg(args[argNum + 1], verb, plus)
                            \o doPrintf[j + 1, argNum + 1]
  IN doPrintf[1, 0]

\* filepath.Base over a path given as its components.
Base(path) == IF path = <<>> THEN "." ELSE path[Len(path)]

\* runtime.Caller(skip) on a goroutine stack (innermost frame first).
CallerOk(stack, skip) == skip + 1 <= Len(stack)
\* A lookup that counts the skipped frames from 1 instead of 0.
Caller_OffByOne(stack, skip) ==
  IF CallerOk(stack, skip) THEN stack[skip]
  ELSE [file |-> <<"???">>, line |-> 0]

Caller(stack, skip) ==
  IF CallerOk(stack, skip) THEN stack[skip + 1]
  ELSE [file |-> <<"???">>, line |-> 0]

\* The line of each entry point that calls mustLog.
EntryLine(entry) ==
  CASE entry = "Debug" -> 177
    [] entry = "Info" -> 183
    [] entry = "Warn" -> 188
    [] entry = "Error" -> 193
    [] entry = "Fatal" -> 198
    [] OTHER -> 0

\* The goroutine's stack inside mustLog: mustLog's own frame, the frame of
\* the entry point that called it (if one did), then the caller's frames.
StackIn(entry, frames) ==
  << [file |-> <<"log", "log.go">>, line |-> 153] >>
  \o (IF EntryLine(entry) = 0 THEN <<>>
      ELSE << [file |-> <<"log", "log.go">>, line |-> EntryLine(entry)] >>)
  \o frames

\* The call depth every entry point passes to mustLog.
EntryCallDepth == 2

(***************************************************************************)
(* Templates: the parse trees of the two format strings.                   *)
(***************************************************************************)
\* The separator glyph of the format strings, U+25B6 (a black triangle
\* pointing right); the model's strings are ASCII, so it is spelled out.
Glyph == "|>"

TextNode(s) == [kind |-> "text", v |-> s, arg |-> ""]
FuncNode(f, a) == [kind |-> "func", v |-> f, arg |-> a]
FieldNode(f) == [kind |-> "field", v |-> f, arg |-> ""]

debugLogFormat ==
  << TextNode("[IIGService] "),
     FuncNode("Now", "2006/01/02 15:04:05"),
     TextNode(" "),
     FieldNode("Level"),
     TextNode(" " \o Glyph \o " "),
     FieldNode("ID"),
     TextNode(" "),
     FieldNode("Filename"),
     TextNode(":"),
     FieldNode("LineNo"),
     TextNode(" "),
     FieldNode("Message"),
     FuncNode("EndLine", "") >>

relaseLogFormat ==
  << TextNode("[IIGService] "),
     FuncNode("Now", "2006/01/02 15:04:05"),
     TextNode(" "),
     FieldNode("Level"),
     TextNode(" " \o Glyph \o " "),
     FieldNode("ID"),
     TextNode(" "),
     FieldNode("Message"),
     FuncNode("EndLine", "") >>

\* template.New(name).Funcs(funcs).Parse(format): a named parse tree.
Template(name, format) == [name |-> name, tree |-> format]
NoTemplate == Template(Nil, <<>>)

LogRecord(id, level, message, filename, lineNo) ==
  [ID |-> id, Level |-> level, Message |-> message,
   Filename |-> filename, LineNo |-> lineNo]

NoRecord == LogRecord("", "", "", "", 0)

\* The text one node of a template evaluates to.
EvalNode(n, rec, t) ==
  CASE n.kind = "text" -> n.v
    [] n.kind = "func" /\ n.v = "Now" -> Now(t, n.arg)
    [] n.kind = "func" /\ n.v = "EndLine" -> EndLine
    [] n.kind = "field" /\ n.v = "Level" -> rec.Level
    [] n.kind = "field" /\ n.v = "ID" -> rec.ID
    [] n.kind = "field" /\ n.v = "Filename" -> rec.Filename
    [] n.kind = "field" /\ n.v = "LineNo" -> ToString(rec.LineNo)
    [] n.kind = "field" /\ n.v = "Message" -> rec.Message
    [] OTHER -> ""

(***************************************************************************)
(* State.                                                                  *)
(***************************************************************************)
VARIABLES
  env,                \* the environment variable IIGSDEBUG
  debugMode,          \* package variable debugMode
  logLevel,           \* package variable logLevel
  onceDone,           \* whether once has run its function
  initCount,          \* how many times the body given to once.Do has run
  instance,           \* package variable instance: Nil or the one QLogger
  log,                \* package variable log
  handles,            \* the values getQLogger has returned so far
  logRecordTemplate,  \* package variable logRecordTemplate
  output,             \* QLogger.output
  lastSet,            \* the writer given to the latest completed SetOutput
                      \* (to the initialisation before the first one)
  mu,                 \* QLogger.mu: 0 when free, else the goroutine holding it
  acquired,           \* how many times l.mu.Lock() has returned so far
  sink,               \* what each byte sink has received, one entry per Write
  pc,                 \* where each goroutine is
  call,               \* the call each goroutine is in
  started,            \* operations each goroutine has started so far
  exited,             \* whether the process has terminated
  exitCode            \* its exit status

vars == <<env, debugMode, logLevel, onceDone, initCount, instance, log,
          handles, logRecordTemplate, output, lastSet, mu,
          acquired, sink, pc, call, started, exited, exitCode>>

pkgVars == <<debugMode, logLevel>>
onceVars == <<onceDone, initCount, instance, logRecordTemplate>>
procExit == <<exited, exitCode>>

NoCall ==
  [op |-> "none", id |-> <<0, 0>>, level |-> 0, calldepth |-> 0,
   format |-> "", args |-> <<>>, frames |-> <<>>,
   w |-> Nil, trace |-> [url |-> "", code |-> 0, result |-> ""],
   record |-> NoRecord, wr |-> NoWriter, tmpl |-> NoTemplate, idx |-> 0,
   err |-> NoErr, panic |-> FALSE, lockedOutput |-> NoWriter, ticket |-> 0]

\* One Write received by a sink: the bytes, and which call issued it (and
\* as which acquisition of the mutex, 0 for none), as its k-th write and for
\* which part of its output.
Chunk(c, k, part, text) ==
  [id |-> c.id, op |-> c.op, level |-> c.level, ticket |-> c.ticket, k |-> k,
   part |-> part, text |-> text]

Init ==
  /\ env \in EnvValues
  /\ debugMode = (env = "1")
  /\ logLevel \in Thresholds
  /\ onceDone = FALSE
  /\ initCount = 0
  /\ instance = Nil
  /\ log = Nil
  /\ handles = {}
  /\ logRecordTemplate = NoTemplate
  /\ output = NoWriter
  /\ lastSet = Nil
  /\ mu = 0
  /\ acquired = 0
  /\ sink = [w \in Writers |-> <<>>]
  /\ pc = [p \in Procs |-> "idle"]
  /\ call = [p \in Procs |-> NoCall]
  /\ started = [p \in Procs |-> 0]
  /\ exited = FALSE
  /\ exitCode = 0

(***************************************************************************)
(* getQLogger and the package initialisation.                              *)
(***************************************************************************)
\* once.Do runs its function only the first time.
OnceRuns_Always == TRUE
OnceRuns == ~onceDone

\* The template the initialisation selects.
SelectTemplate ==
  IF debugMode THEN Template("debugLogFormat", debugLogFormat)
  ELSE Template("relaseLogFormat", relaseLogFormat)

\* &QLogger{...}: the n-th logger the process allocates.
NewQLogger(n) == "QLogger#" \o ToString(n)

\* getQLogger(w): the state it leaves and the value it returns.
getQLogger(w) ==
  /\ IF OnceRuns
     THEN /\ logRecordTemplate' = SelectTemplate
          /\ initCount' = initCount + 1
          /\ instance' = NewQLogger(initCount + 1)
          /\ output' = NewColorWriter(w)
          /\ onceDone' = TRUE
     ELSE UNCHANGED <<logRecordTemplate, initCount, instance, output, onceDone>>
  /\ handles' = handles \cup {instance'}

\* var log = getQLogger(os.Stdout)
LogInit ==
  /\ ~exited
  /\ log = Nil
  /\ getQLogger(Stdout)
  /\ log' = instance'
  /\ lastSet' = Stdout
  /\ UNCHANGED <<env, pkgVars, mu, acquired, sink, pc, call, started, procExit>>

\* Operations started so far, and the name of the next one of p.
RECURSIVE SumTo(_, _)
SumTo(f, n) == IF n = 0 THEN 0 ELSE f[n] + SumTo(f, n - 1)
NumOps == SumTo(started, NumProcs)
NextId(p) == <<p, started[p] + 1>>

Started == log # Nil /\ ~exited
CanStart(p) == Started /\ pc[p] = "idle" /\ NumOps < MaxOps

\* A later call of getQLogger by code of the package, up to its return.
GetQLogger(p) ==
  /\ CanStart(p)
  /\ \E w \in Writers :
       /\ getQLogger(w)
       /\ call' = [call EXCEPT ![p] =
                     [NoCall EXCEPT !.op = "getQLogger", !.id = NextId(p),
                                    !.w = w]]
  /\ pc' = [pc EXCEPT ![p] = "ret"]
  /\ started' = [started EXCEPT ![p] = @ + 1]
  /\ UNCHANGED <<env, pkgVars, log, lastSet, mu, acquired, sink, procExit>>

\* The host program changes the environment variable.
Setenv(p) ==
  /\ CanStart(p)
  /\ \E v \in EnvValues : v # env /\ env' = v
  /\ started' = [started EXCEPT ![p] = @ + 1]
  /\ UNCHANGED <<pkgVars, onceVars, log, handles, output, lastSet, mu,
                 acquired, sink, pc, call, procExit>>

(***************************************************************************)
(* The mutex.                                                              *)
(***************************************************************************)
CanLock_NoExclusion == TRUE
CanLock == mu = 0
\* A Lock that returns without the mutex being held.
Lock_NotHeld(p) == mu' = 0 /\ acquired' = acquired + 1
Lock(p) == mu' = p /\ acquired' = acquired + 1
Unlock == mu' = 0 /\ UNCHANGED acquired

(***************************************************************************)
(* The level entry points and the gates of mustLog.                        *)
(***************************************************************************)
\* Debug: if debugMode { log.mustLog(...) }
DebugPasses_Always == TRUE
DebugPasses == debugMode

\* mustLog: if level < logLevel { return }
BelowThreshold_OffByOne(level) == level + 1 < logLevel
BelowThreshold(level) == level < logLevel

\* Whether a call of an entry point gets as far as l.mu.Lock().
Admitted_NoThreshold(op, level) == op = "Debug" => DebugPasses
Admitted(op, level) ==
  /\ op = "Debug" => DebugPasses
  /\ ~BelowThreshold(level)

\* A goroutine calls an entry point from one of the host's call sites.  The
\* gates read package variables only, so the call and its gates are one
\* step: the call either returns at a gate or stands before l.mu.Lock().
Enter(p, op, level) ==
  /\ CanStart(p)
  /\ LET site == SiteOf(p)
     IN call' = [call EXCEPT ![p] =
                   [NoCall EXCEPT !.op = op, !.id = NextId(p), !.level = level,
                                  !.calldepth = EntryCallDepth,
                                  !.format = site.format, !.args = site.args,
                                  !.frames = site.frames]]
  /\ pc' = [pc EXCEPT ![p] = IF Admitted(op, level) THEN "lock" ELSE "ret"]
  /\ started' = [started EXCEPT ![p] = @ + 1]
  /\ UNCHANGED <<env, pkgVars, onceVars, log, handles, output, lastSet, mu,
                 acquired, sink, procExit>>

\* Code of the package calls log.mustLog itself with a level that is none
\* of the five constants.
MustLog(p) == \E level \in OtherLevels : Enter(p, "mustLog", level)

Debug(p) == Enter(p, "Debug", levelDebug)
Info(p) == Enter(p, "Info", levelInfo)
Warn_AsError(p) == Enter(p, "Warn", levelError)
Warn(p) == Enter(p, "Warn", levelWarn)
Error(p) == Enter(p, "Error", levelError)
Fatal(p) == Enter(p, "Fatal", levelFatal)

(***************************************************************************)
(* mustLog under the mutex.                                                *)
(***************************************************************************)
\* The record mustLog builds for a call.
BuildRecord_WithID(c) ==
  LET stack == StackIn(c.op, c.frames)
      ok == CallerOk(stack, c.calldepth)
      fr == Caller(stack, c.calldepth)
  IN [ID |-> ToString(c.id[2]),
      Level |-> getColorLevel(c.level),
      Message |-> Sprintf(c.format, c.args),
      Filename |-> Base(IF ok THEN fr.file ELSE <<"???">>),
      LineNo |-> IF ok THEN fr.line ELSE 0]

BuildRecord(c) ==
  LET stack == StackIn(c.op, c.frames)
      ok == CallerOk(stack, c.calldepth)
      fr == Caller(stack, c.calldepth)
      file == IF ok THEN fr.file ELSE <<"???">>
      line == IF ok THEN fr.line ELSE 0
  IN [ID |-> "",
      Level |-> getColorLevel(c.level),
      Message |-> Sprintf(c.format, c.args),
      Filename |-> Base(file),
      LineNo |-> line]

\* The writer and the template mustLog hands to Execute.
ExecWriter == output
ExecTemplate_FromEnv ==
  IF env = "1" THEN Template("debugLogFormat", debugLogFormat)
  ELSE Template("relaseLogFormat", relaseLogFormat)
ExecTemplate == logRecordTemplate

\* l.mu.Lock(), runtime.Caller, the record, and the call of Execute: what
\* follows the acquisition reads only state the mutex guards, up to the
\* first Write.
MustLogLock(p) ==
  /\ ~exited
  /\ pc[p] = "lock"
  /\ CanLock
  /\ Lock(p)
  /\ IF LevelPanics(call[p].level)
     THEN /\ call' = [call EXCEPT ![p].lockedOutput = output,
                                  ![p].ticket = acquired + 1,
                                  ![p].err = errInvalidLogLevel,
                                  ![p].panic = TRUE]
          /\ pc' = [pc EXCEPT ![p] = "unlock"]
     ELSE /\ call' = [call EXCEPT ![p].lockedOutput = output,
                                  ![p].ticket = acquired + 1,
                                  ![p].record = BuildRecord(call[p]),
                                  ![p].wr = ExecWriter,
                                  ![p].tmpl = ExecTemplate,
                                  ![p].idx = 1]
          /\ pc' = [pc EXCEPT ![p] = "exec"]
  /\ UNCHANGED <<env, pkgVars, onceVars, log, handles, output, lastSet, sink,
                 started, procExit>>

\* Where a call stands after its write number k of a tree succeeded.
AfterWrite_Early(tree, k) == IF k + 1 >= Len(tree) THEN "unlock" ELSE "exec"
AfterWrite(tree, k) == IF k >= Len(tree) THEN "unlock" ELSE "exec"

\* Execute writes the text of its next node to the writer.
ExecuteWrite(p) ==
  /\ ~exited
  /\ pc[p] = "exec"
  /\ LET c == call[p]
         w == Under(c.wr)
         n == c.tmpl.tree[c.idx]
     IN /\ c.idx <= Len(c.tmpl.tree)
        /\ \E t \in Clocks :
             sink' = [sink EXCEPT ![w] =
                        Append(@, Chunk(c, c.idx, n.v,
                                        EvalNode(n, c.record, t)))]
        /\ call' = [call EXCEPT ![p].idx = c.idx + 1]
        /\ pc' = [pc EXCEPT ![p] = AfterWrite(c.tmpl.tree, c.idx)]
  /\ UNCHANGED <<env, pkgVars, onceVars, log, handles, output, lastSet, mu,
                 acquired, started, procExit>>

\* if err != nil { panic(err) }
PanicsOn_Never(err) == FALSE
PanicsOn(err) == err # NoErr

\* A Write fails: Execute returns the error to mustLog.
ExecuteFail(p) ==
  /\ ~exited
  /\ pc[p] = "exec"
  /\ Under(call[p].wr) \in MayFail
  /\ call' = [call EXCEPT ![p].err = errWrite, ![p].panic = PanicsOn(errWrite)]
  /\ pc' = [pc EXCEPT ![p] = "unlock"]
  /\ UNCHANGED <<env, pkgVars, onceVars, log, handles, output, lastSet, mu,
                 acquired, sink, started, procExit>>

\* An Unlock placed at the end of mustLog instead of a deferred one: a
\* panic leaves the function without it.
MustLogUnlock_LeakOnPanic(p) ==
  /\ ~exited
  /\ pc[p] = "unlock"
  /\ IF call[p].panic
     THEN /\ pc' = [pc EXCEPT ![p] = "panicked"]
          /\ UNCHANGED <<call, mu, acquired>>
     ELSE /\ Unlock
          /\ IF call[p].op = "Fatal"
             THEN pc' = [pc EXCEPT ![p] = "ret"] /\ UNCHANGED call
             ELSE /\ pc' = [pc EXCEPT ![p] = "idle"]
                  /\ call' = [call EXCEPT ![p] = NoCall]
  /\ UNCHANGED <<env, pkgVars, onceVars, log, handles, output, lastSet, sink,
                 started, procExit>>

\* defer l.mu.Unlock(), on return and during a panic.  After it a panic
\* leaves the package, Fatal stands before os.Exit, and any other entry
\* point has returned to its caller.
MustLogUnlock(p) ==
  /\ ~exited
  /\ pc[p] = "unlock"
  /\ Unlock
  /\ IF call[p].panic
     THEN pc' = [pc EXCEPT ![p] = "panicked"] /\ UNCHANGED call
     ELSE IF call[p].op = "Fatal"
     THEN pc' = [pc EXCEPT ![p] = "ret"] /\ UNCHANGED call
     ELSE /\ pc' = [pc EXCEPT ![p] = "idle"]
          /\ call' = [call EXCEPT ![p] = NoCall]
  /\ UNCHANGED <<env, pkgVars, onceVars, log, handles, output, lastSet, sink,
                 started, procExit>>

\* The status the operating system reports for os.Exit(code).
ExitStatus(code) == code % 256
FatalExitCode == 0 - 1
PanicExitCode == 2

\* getQLogger, or an entry point other than Fatal that stopped at a gate,
\* returns to its caller.
Return(p) ==
  /\ ~exited
  /\ pc[p] = "ret"
  /\ call[p].op # "Fatal"
  /\ pc' = [pc EXCEPT ![p] = "idle"]
  /\ call' = [call EXCEPT ![p] = NoCall]
  /\ UNCHANGED <<env, pkgVars, onceVars, log, handles, output, lastSet, mu,
                 acquired, sink, started, procExit>>

\* Fatal: os.Exit(-1) after mustLog returned.
FatalExit(p) ==
  /\ ~exited
  /\ pc[p] = "ret"
  /\ call[p].op = "Fatal"
  /\ exited' = TRUE
  /\ exitCode' = ExitStatus(FatalExitCode)
  /\ UNCHANGED <<env, pkgVars, onceVars, log, handles, output, lastSet, mu,
                 acquired, sink, pc, call, started>>

\* A panic that left the package: the host recovers it ...
PanicRecovered(p) ==
  /\ ~exited
  /\ pc[p] = "panicked"
  /\ pc' = [pc EXCEPT ![p] = "idle"]
  /\ call' = [call EXCEPT ![p] = NoCall]
  /\ UNCHANGED <<env, pkgVars, onceVars, log, handles, output, lastSet, mu,
                 acquired, sink, started, procExit>>

\* ... or it reaches the top of the goroutine and the runtime ends the
\* process.
PanicCrash(p) ==
  /\ ~exited
  /\ pc[p] = "panicked"
  /\ exited' = TRUE
  /\ exitCode' = PanicExitCode
  /\ UNCHANGED <<env, pkgVars, onceVars, log, handles, output, lastSet, mu,
                 acquired, sink, pc, call, started>>

(***************************************************************************)
(* SetOutput.                                                              *)
(***************************************************************************)
SetOutput(p) ==
  /\ CanStart(p)
  /\ \E w \in Writers :
       call' = [call EXCEPT ![p] =
                  [NoCall EXCEPT !.op = "SetOutput", !.id = NextId(p), !.w = w]]
  /\ pc' = [pc EXCEPT ![p] = "so_lock"]
  /\ started' = [started EXCEPT ![p] = @ + 1]
  /\ UNCHANGED <<env, pkgVars, onceVars, log, handles, output, lastSet, mu,
                 acquired, sink, procExit>>

\* The target SetOutput(w) stores.
NewOutput_Stdout(w) == NewColorWriter(Stdout)
NewOutput(w) == NewColorWriter(w)

\* SetOutput storing the target without taking the mutex.
SetOutputLock_NoLock(p) ==
  /\ ~exited
  /\ pc[p] = "so_lock"
  /\ output' = NewOutput(call[p].w)
  /\ pc' = [pc EXCEPT ![p] = "so_unlock"]
  /\ UNCHANGED <<env, pkgVars, onceVars, log, handles, lastSet, mu,
                 acquired, sink, call, started, procExit>>

\* l.mu.Lock() and l.output = colors.NewColorWriter(w)
SetOutputLock(p) ==
  /\ ~exited
  /\ pc[p] = "so_lock"
  /\ CanLock
  /\ Lock(p)
  /\ output' = NewOutput(call[p].w)
  /\ pc' = [pc EXCEPT ![p] = "so_unlock"]
  /\ UNCHANGED <<env, pkgVars, onceVars, log, handles, lastSet, sink, call,
                 started, procExit>>

\* SetOutput returning without the deferred Unlock.
SetOutputUnlock_Leak(p) ==
  /\ ~exited
  /\ pc[p] = "so_unlock"
  /\ lastSet' = call[p].w
  /\ pc' = [pc EXCEPT ![p] = "idle"]
  /\ call' = [call EXCEPT ![p] = NoCall]
  /\ UNCHANGED <<env, pkgVars, onceVars, log, handles, output, mu,
                 acquired, sink, started, procExit>>

\* defer l.mu.Unlock(), and the return.
SetOutputUnlock(p) ==
  /\ ~exited
  /\ pc[p] = "so_unlock"
  /\ Unlock
  /\ lastSet' = call[p].w
  /\ pc' = [pc EXCEPT ![p] = "idle"]
  /\ call' = [call EXCEPT ![p] = NoCall]
  /\ UNCHANGED <<env, pkgVars, onceVars, log, handles, output, sink, started,
                 procExit>>

(***************************************************************************)
(* Trace.                                                                  *)
(***************************************************************************)
TraceBanner == "=================================\n"

\* The number of io.WriteString calls in Trace.
TraceWrites == 4

\* The string the k-th io.WriteString of Trace is given.
TraceLine(a, k) ==
  CASE k = 1 -> TraceBanner
    [] k = 2 -> MagentaBold(Sprintf("   URL: %+v\n", <<StringArg(a.url)>>))
    [] k = 3 -> MagentaBold(Sprintf("  CODE: %+v\n", <<IntArg(a.code)>>))
    [] k = 4 -> MagentaBold(Sprintf("RESULT: %+v\n", <<StringArg(a.result)>>))

\* output := colors.NewColorWriter(os.Stdout)
TraceWriter_LoggerOutput == output
TraceWriter == NewColorWriter(Stdout)

Trace(p) ==
  /\ CanStart(p)
  /\ \E a \in TraceArgs :
       call' = [call EXCEPT ![p] =
                  [NoCall EXCEPT !.op = "Trace", !.id = NextId(p), !.trace = a,
                                 !.wr = TraceWriter, !.idx = 1]]
  /\ pc' = [pc EXCEPT ![p] = "trace"]
  /\ started' = [started EXCEPT ![p] = @ + 1]
  /\ UNCHANGED <<env, pkgVars, onceVars, log, handles, output, lastSet, mu,
                 acquired, sink, procExit>>

\* Trace writing through the logger's target instead of its own writer.
TraceWrite_ThroughLogger(p) ==
  /\ ~exited
  /\ pc[p] = "trace"
  /\ LET c == call[p]
         w == Under(output)
     IN /\ sink' = [sink EXCEPT ![w] =
                       Append(@, Chunk(c, c.idx, "trace",
                                       TraceLine(c.trace, c.idx)))]
        /\ IF c.idx >= TraceWrites
           THEN /\ pc' = [pc EXCEPT ![p] = "idle"]
                /\ call' = [call EXCEPT ![p] = NoCall]
           ELSE /\ pc' = [pc EXCEPT ![p] = "trace"]
                /\ call' = [call EXCEPT ![p].idx = c.idx + 1]
  /\ UNCHANGED <<env, pkgVars, onceVars, log, handles, output, lastSet, mu,
                 acquired, started, procExit>>

\* io.WriteString(output, ...): one of the four writes; its error is dropped.
TraceWrite(p) ==
  /\ ~exited
  /\ pc[p] = "trace"
  /\ LET c == call[p]
         w == Under(c.wr)
     IN /\ sink' = [sink EXCEPT ![w] =
                       Append(@, Chunk(c, c.idx, "trace",
                                       TraceLine(c.trace, c.idx)))]
        /\ IF c.idx >= TraceWrites
           THEN /\ pc' = [pc EXCEPT ![p] = "idle"]
                /\ call' = [call EXCEPT ![p] = NoCall]
           ELSE /\ pc' = [pc EXCEPT ![p] = "trace"]
                /\ call' = [call EXCEPT ![p].idx = c.idx + 1]
  /\ UNCHANGED <<env, pkgVars, onceVars, log, handles, output, lastSet, mu,
                 acquired, started, procExit>>

(***************************************************************************)
(* The specification.                                                      *)
(***************************************************************************)
Next ==
  \/ LogInit
  \/ \E p \in Procs :
       \/ Setenv(p) \/ GetQLogger(p)
       \/ Debug(p) \/ Info(p) \/ Warn(p) \/ Error(p) \/ Fatal(p)
       \/ MustLog(p) \/ MustLogLock(p)
       \/ ExecuteWrite(p) \/ ExecuteFail(p) \/ MustLogUnlock(p)
       \/ Return(p) \/ FatalExit(p) \/ PanicRecovered(p) \/ PanicCrash(p)
       \/ SetOutput(p) \/ SetOutputLock(p) \/ SetOutputUnlock(p)
       \/ Trace(p) \/ TraceWrite(p)

Spec == Init /\ [][Next]_vars

\* The steps of a call that has the processor to itself: a Write completes
\* (with or without an error), a deferred Unlock runs, a function returns,
\* os.Exit is called.
Continue(p) ==
  \/ ExecuteWrite(p) \/ ExecuteFail(p) \/ MustLogUnlock(p)
  \/ Return(p) \/ FatalExit(p)
  \/ SetOutputUnlock(p) \/ TraceWrite(p)

\* l.mu.Lock() returns.
Acquire(p) == MustLogLock(p) \/ SetOutputLock(p)

\* The scheduler runs every goroutine that can take a step: every Write
\* completes, and a goroutine before l.mu.Lock() gets the mutex if it stays
\* free.
FairSpec ==
  /\ Spec
  /\ \A p \in Procs : WF_vars(Continue(p) \/ Acquire(p))

TypeOK ==
  /\ mu \in 0..NumProcs
  /\ acquired \in 0..MaxOps
  /\ NumOps \in 0..MaxOps
  /\ exited \in BOOLEAN

(***************************************************************************)
(* Vocabulary of the properties.                                           *)
(***************************************************************************)
LevelOps == {"Debug", "Info", "Warn", "Error", "Fatal"}

\* The writes a sink received from the level entry points, and the writes
\* it received from one call.
RecordWrites(w) == SelectSeq(sink[w], LAMBDA c : c.op \in LevelOps)
WritesOf(w, id) == SelectSeq(sink[w], LAMBDA c : c.id = id)

\* No write of one call stands between two writes of another call.
Contiguous(s) ==
  \A i, k \in 1..Len(s) :
    (i < k /\ s[i].id = s[k].id) => \A j \in i..k : s[j].id = s[i].id

\* ws is the complete rendering of call c: one write per node of its
\* template, in order.
IsRendering(ws, c) ==
  /\ Len(ws) = Len(c.tmpl.tree)
  /\ \A k \in 1..Len(ws) :
       \E t \in Clocks :
         ws[k] = Chunk(c, k, c.tmpl.tree[k].v,
                       EvalNode(c.tmpl.tree[k], c.record, t))

\* Execute returned nil to the call of p.
Rendered(p) ==
  /\ call[p].op \in LevelOps
  /\ \/ pc[p] = "unlock" /\ ~call[p].panic
     \/ pc[p] = "ret" /\ Admitted(call[p].op, call[p].level)

\* The record of the call of p is complete on the target the call wrote to
\* and no other sink holds a write of it.
RecordComplete(p) ==
  /\ IsRendering(WritesOf(Under(call[p].wr), call[p].id), call[p])
  /\ \A w \in Writers \ {Under(call[p].wr)} : WritesOf(w, call[p].id) = <<>>

(***************************************************************************)
(* C1. Atomic interleaving: the writes of the records of concurrent        *)
(* callers never interleave on a sink, and every caller whose rendering    *)
(* succeeded has put exactly one complete record on its target.            *)
(***************************************************************************)
C1_AtomicInterleaving ==
  /\ \A w \in Writers : Contiguous(RecordWrites(w))
  /\ \A p \in Procs : Rendered(p) => RecordComplete(p)

\* Two callers' complete records stand on the same sink.
C1_Witness ==
  \E p \in Procs :
    /\ Rendered(p)
    /\ RecordComplete(p)
    /\ \E i \in 1..Len(sink[Under(call[p].wr)]) :
         LET c == sink[Under(call[p].wr)][i]
         IN c.op \in LevelOps /\ c.id[1] # p /\ c.part = "EndLine"

(***************************************************************************)
(* C2. Threshold monotonicity: a call of an entry point whose severity is  *)
(* below the threshold returns at the gate and no sink ever holds a write  *)
(* of a severity below the threshold.                                      *)
(***************************************************************************)
C2_ThresholdMonotonicity ==
  /\ \A w \in Writers : \A i \in 1..Len(sink[w]) :
       sink[w][i].op \in LevelOps => ~(sink[w][i].level < logLevel)
  /\ \A p \in Procs :
       (call[p].op \in LevelOps /\ call[p].level < logLevel) => pc[p] = "ret"

\* Warn returned under threshold Error while another caller's Error record
\* is being written.
C2_Witness ==
  /\ logLevel = levelError
  /\ \E p, q \in Procs :
       /\ call[p].op = "Warn" /\ pc[p] = "ret"
       /\ call[q].op = "Error" /\ pc[q] = "exec" /\ call[q].idx > 1

(***************************************************************************)
(* C3. Debug gating: with debug mode disabled a call of Debug returns at   *)
(* once, whatever the threshold: it writes nothing and neither takes nor   *)
(* waits for the mutex.                                                    *)
(***************************************************************************)
C3_DebugGating ==
  ~debugMode =>
    /\ \A w \in Writers : \A i \in 1..Len(sink[w]) : sink[w][i].op # "Debug"
    /\ \A p \in Procs : call[p].op = "Debug" => (pc[p] = "ret" /\ mu # p)

\* Debug has returned while another caller holds the mutex.
C3_Witness ==
  /\ ~debugMode
  /\ \E p, q \in Procs :
       /\ p # q
       /\ call[p].op = "Debug" /\ pc[p] = "ret"
       /\ mu = q /\ pc[q] = "exec"

(***************************************************************************)
(* C4. Fatal exit behaviour.  Original statement: every invocation of      *)
(* Fatal has its complete record on the sink when the process terminates,  *)
(* for every threshold and every sink outcome.                             *)
(***************************************************************************)
C4_Original ==
  \A p \in Procs :
    (exited /\ call[p].op = "Fatal" /\ pc[p] \in {"ret", "panicked"}) =>
      \E w \in Writers :
        Len(WritesOf(w, call[p].id)) = Len(logRecordTemplate.tree)

(***************************************************************************)
(* C4, amended.  The process never ends with status 0; os.Exit(-1) is      *)
(* reached only by a Fatal whose mustLog has returned and released the     *)
(* mutex; at that point the complete record is on the target that was      *)
(* current at lock acquisition when the threshold admits Fatal, and no     *)
(* write of the call exists when the threshold is above Fatal.             *)
(***************************************************************************)
C4_FatalExit ==
  /\ exited => exitCode # 0
  /\ (exited /\ exitCode = ExitStatus(FatalExitCode)) =>
       \E p \in Procs : call[p].op = "Fatal" /\ pc[p] = "ret"
  /\ \A p \in Procs :
       (call[p].op = "Fatal" /\ pc[p] = "ret") =>
         /\ mu # p
         /\ call[p].err = NoErr
         /\ IF levelFatal >= logLevel
            THEN RecordComplete(p) /\ call[p].wr = call[p].lockedOutput
            ELSE \A w \in Writers : WritesOf(w, call[p].id) = <<>>

\* The process has exited through Fatal with the record written.
C4_Witness ==
  /\ exited
  /\ exitCode = ExitStatus(FatalExitCode)
  /\ levelFatal >= logLevel
  /\ \E p \in Procs :
       /\ call[p].op = "Fatal" /\ pc[p] = "ret"
       /\ RecordComplete(p)

(***************************************************************************)
(* C5. SetOutput visibility: a log call that holds the mutex writes every  *)
(* part of its record to the target that was current when it acquired     *)
(* the mutex, that target is the one derived from the writer of the latest *)
(* completed SetOutput, and it does not change while the call holds the    *)
(* mutex.                                                                  *)
(***************************************************************************)
C5_SetOutputVisibility ==
  \A p \in Procs :
    (call[p].op \in LevelOps /\ pc[p] \in {"exec", "unlock"}) =>
      /\ mu = p
      /\ call[p].lockedOutput = NewColorWriter(lastSet)
      /\ output = call[p].lockedOutput
      /\ call[p].panic \/ call[p].wr = call[p].lockedOutput
      /\ \A w \in Writers :
           WritesOf(w, call[p].id) # <<>> => w = Under(call[p].lockedOutput)

\* After SetOutput(file) completed, a log call is writing its record to
\* the file.
C5_Witness ==
  /\ lastSet = "file"
  /\ \E p \in Procs :
       /\ call[p].op \in LevelOps /\ pc[p] = "exec" /\ call[p].idx > 2
       /\ WritesOf("file", call[p].id) # <<>>

(***************************************************************************)
(* C6. Singleton initialisation is idempotent: the body given to once.Do   *)
(* has run exactly once, every call of getQLogger returned the instance    *)
(* held by log, the template is the one the first call selected, and the   *)
(* output target is the one set by the initialisation or by SetOutput,     *)
(* never the writer given to a later getQLogger.                           *)
(***************************************************************************)
C6_SingletonInit ==
  /\ log = Nil => initCount = 0
  /\ log # Nil =>
       /\ initCount = 1
       /\ onceDone
       /\ instance = log
       /\ handles = {log}
       /\ logRecordTemplate = SelectTemplate
       /\ output \in {NewColorWriter(lastSet)}
                     \cup {NewColorWriter(call[p].w) :
                             p \in {q \in Procs : pc[q] = "so_unlock"}}

\* getQLogger(file) has returned and the target is still standard output.
C6_Witness ==
  /\ initCount = 1
  /\ output = NewColorWriter(Stdout)
  /\ \E p \in Procs :
       call[p].op = "getQLogger" /\ pc[p] = "ret" /\ call[p].w = "file"

(***************************************************************************)
(* C7. Template selection stability: the template in use is the one the    *)
(* initialisation selected from debugMode, whatever the environment        *)
(* variable holds now; a logger initialised in concise mode renders every  *)
(* record with the concise template, so no sink holds a Filename or        *)
(* LineNo write.                                                           *)
(***************************************************************************)
C7_TemplateStability ==
  log # Nil =>
    /\ logRecordTemplate.name =
         IF debugMode THEN "debugLogFormat" ELSE "relaseLogFormat"
    /\ \A p \in Procs :
         pc[p] \in {"exec", "unlock"} /\ ~call[p].panic =>
           call[p].tmpl = logRecordTemplate
    /\ ~debugMode =>
         \A w \in Writers : \A i \in 1..Len(sink[w]) :
           sink[w][i].part \notin {"Filename", "LineNo"}

\* A goroutine set IIGSDEBUG=1 after a concise initialisation and then
\* logged a complete record.
C7_Witness ==
  /\ ~debugMode
  /\ env = "1"
  /\ \E p \in Procs :
       /\ started[p] = 2
       /\ Rendered(p)
       /\ Len(WritesOf(Under(call[p].wr), call[p].id)) = Len(relaseLogFormat)

(***************************************************************************)
(* C8. Trace helper independence: whatever the threshold, the debug mode   *)
(* and the logger's target, a Trace call writes its four lines, in order,  *)
(* to standard output and to no other sink, never holds the mutex, and     *)
(* its steps leave the logger's target, template, mutex and threshold      *)
(* unchanged.                                                              *)
(***************************************************************************)
\* The four lines of Trace(url, code, result).
FourLines(a) ==
  << "=================================\n",
     MagentaBold("   URL: " \o a.url \o "\n"),
     MagentaBold("  CODE: " \o ToString(a.code) \o "\n"),
     MagentaBold("RESULT: " \o a.result \o "\n") >>

\* The identities of the Trace calls standard output has heard of.
TraceIds ==
  LET s == sink[Stdout]
  IN {s[i].id : i \in {j \in 1..Len(s) : s[j].op = "Trace"}}

\* How many writes a Trace call with arguments a has issued: every line
\* once it has returned.
TraceIssued(id, a) ==
  IF \E p \in Procs : call[p].id = id /\ pc[p] = "trace"
  THEN call[CHOOSE p \in Procs : call[p].id = id].idx - 1
  ELSE Len(FourLines(a))

TraceInv ==
  /\ \A p \in Procs :
       call[p].op = "Trace" =>
         pc[p] = "trace" /\ mu # p /\ Under(call[p].wr) = Stdout
  /\ \A w \in Writers \ {Stdout} : \A i \in 1..Len(sink[w]) :
       sink[w][i].op # "Trace"
  /\ \A id \in TraceIds :
       LET ws == WritesOf(Stdout, id)
       IN \E a \in TraceArgs :
            /\ Len(ws) = TraceIssued(id, a)
            /\ \A k \in 1..Len(ws) :
                 ws[k].k = k /\ ws[k].text = FourLines(a)[k]

\* A step of a Trace call.
TraceStep(p) ==
  \/ pc[p] = "idle" /\ pc'[p] = "trace"
  \/ pc[p] = "trace" /\ (pc'[p] # pc[p] \/ call'[p] # call[p])

\* C8: every state satisfies TraceInv (four lines, in order, on standard
\* output only, mutex never held) and no step of a Trace call changes the
\* logger's target, template, mutex, threshold or debug mode.
C8_TraceIndependence ==
  /\ []TraceInv
  /\ [][\A p \in Procs :
          TraceStep(p) =>
            UNCHANGED <<output, lastSet, logRecordTemplate, mu, acquired, logLevel,
                        debugMode>>]_vars

\* With every severity suppressed and the logger writing to the file, a
\* Trace call has returned and its four lines are on standard output.
C8_Witness ==
  /\ logLevel > levelFatal
  /\ output = NewColorWriter("file")
  /\ \E id \in TraceIds : \E a \in TraceArgs :
       /\ Len(WritesOf(Stdout, id)) = Len(FourLines(a))
       /\ \A p \in Procs : call[p].id # id

(***************************************************************************)
(* C9. Record layout: a complete record reads, in verbose mode,            *)
(*   [IIGService] <timestamp> <colored tag> |> <id> <file>:<line> <msg>\n  *)
(* and in concise mode the same without the <file>:<line> field; the id    *)
(* field is empty in every record.                                         *)
(***************************************************************************)
RECURSIVE Concat(_)
Concat(ws) == IF ws = <<>> THEN "" ELSE Head(ws).text \o Concat(Tail(ws))

Pad2(n) == IF n < 10 THEN "0" \o ToString(n) ELSE ToString(n)

\* The fields of the record of a call issued by p with the clock at t.
FieldsOf(p, t) ==
  LET site == SiteOf(p)
      path == IF site.frames = <<>> THEN <<"???">> ELSE site.frames[1].file
      line == IF site.frames = <<>> THEN 0 ELSE site.frames[1].line
  IN [tag |-> "[IIGService]",
      stamp |-> ToString(t.Y) \o "/" \o Pad2(t.M) \o "/" \o Pad2(t.D) \o " "
                \o Pad2(t.h) \o ":" \o Pad2(t.m) \o ":" \o Pad2(t.s),
      level |-> getColorLevel(call[p].level),
      glyph |-> "|>",
      id |-> "",
      where |-> path[Len(path)] \o ":" \o ToString(line),
      msg |-> IF Len(site.args) = 0 THEN "ready" ELSE "user alice logged in"]

VerboseLine(f) ==
  f.tag \o " " \o f.stamp \o " " \o f.level \o " " \o f.glyph \o " " \o f.id
  \o " " \o f.where \o " " \o f.msg \o "\n"

ConciseLine(f) ==
  f.tag \o " " \o f.stamp \o " " \o f.level \o " " \o f.glyph \o " " \o f.id
  \o " " \o f.msg \o "\n"

\* C9: the writes of every complete record concatenate to the verbose line
\* in debug mode and to the concise line otherwise, and every write of the
\* ID field is empty.
C9_RecordLayout ==
  /\ \A p \in Procs :
       Rendered(p) =>
         \E t \in Clocks :
           Concat(WritesOf(Under(call[p].wr), call[p].id)) =
             IF debugMode THEN VerboseLine(FieldsOf(p, t))
             ELSE ConciseLine(FieldsOf(p, t))
  /\ \A w \in Writers : \A i \in 1..Len(sink[w]) :
       sink[w][i].part = "ID" => sink[w][i].text = ""

\* A complete verbose record with a resolved call site.
C9_Witness ==
  /\ debugMode
  /\ \E p \in Procs :
       /\ Rendered(p)
       /\ SiteOf(p).frames # <<>>
       /\ Len(WritesOf(Under(call[p].wr), call[p].id)) = Len(debugLogFormat)

(***************************************************************************)
(* C10. Render and write failures are never swallowed: a log call whose    *)
(* Execute returned an error is panicking, it is releasing the mutex or    *)
(* has left the package by the panic, and it never stands where a call     *)
(* that returned normally stands.                                          *)
(***************************************************************************)
C10_FailuresNotSwallowed ==
  \A p \in Procs :
    call[p].err # NoErr =>
      /\ call[p].panic
      /\ pc[p] \in {"unlock", "panicked"}

\* A write to the file failed and the call has left mustLog by a panic.
C10_Witness ==
  \E p \in Procs :
    /\ call[p].err = errWrite
    /\ pc[p] = "panicked"
    /\ mu # p

(***************************************************************************)
(* C11. A record is never partially written: whenever no log call holds    *)
(* the mutex, every record a sink holds is complete (one write per node of *)
(* the template, the first to the last), also when a write to the sink has *)
(* failed.                                                                 *)
(***************************************************************************)
\* The calls of mustLog, and those of them a sink holds writes of.
LogOps == LevelOps \cup {"mustLog"}
RecordIds(w) ==
  {sink[w][i].id : i \in {j \in 1..Len(sink[w]) : sink[w][j].op \in LogOps}}

NoLogCallHoldsMutex == \A p \in Procs : call[p].op \in LogOps => mu # p

C11_NoPartialRecord ==
  NoLogCallHoldsMutex =>
    \A w \in Writers : \A id \in RecordIds(w) :
      LET ws == WritesOf(w, id)
      IN /\ Len(ws) = Len(logRecordTemplate.tree)
         /\ \A k \in 1..Len(ws) :
              ws[k].k = k /\ ws[k].part = logRecordTemplate.tree[k].v

(***************************************************************************)
(* C12. Lock release on every exit path: the mutex is held only by a call  *)
(* that stands between its acquisition and its exit; a call of mustLog or  *)
(* SetOutput that has ended, by return or by panic (a failed write, an     *)
(* invalid level), does not hold it, so a caller waiting for the mutex     *)
(* finds it free or held by a call that is still inside its section.       *)
(***************************************************************************)
\* Where a call stands between l.mu.Lock() and the deferred Unlock.
InSection(p) == pc[p] \in {"exec", "unlock", "so_unlock"}

C12_LockReleased ==
  /\ mu # 0 => InSection(mu)
  /\ \A p \in Procs : ~InSection(p) => mu # p
  /\ \A p \in Procs :
       pc[p] = "panicked" =>
         /\ call[p].err \in {errWrite, errInvalidLogLevel}
         /\ call[p].ticket > 0
         /\ mu # p

\* A call of mustLog has ended by the panic of an invalid level and another
\* caller has acquired the mutex after it.
C12_Witness ==
  \E p, q \in Procs :
    /\ pc[p] = "panicked"
    /\ call[p].err = errInvalidLogLevel
    /\ mu = q
    /\ call[q].op \in LevelOps
    /\ call[q].ticket > call[p].ticket

(***************************************************************************)
(* C13. Output order equals lock-acquisition order: on every sink, a write *)
(* of a log call that acquired the mutex earlier stands before every write *)
(* of a log call that acquired it later, and two writes made under the     *)
(* same acquisition belong to the same call.                               *)
(***************************************************************************)
C13_OutputOrder ==
  \A w \in Writers :
    LET s == RecordWrites(w)
    IN \A i, j \in 1..Len(s) :
         /\ s[i].ticket > 0
         /\ s[i].ticket < s[j].ticket => i < j
         /\ s[i].ticket = s[j].ticket => s[i].id = s[j].id

\* Two goroutines' complete records stand on one sink, the record of the
\* second goroutine first because it acquired the mutex first.
C13_Witness ==
  \E w \in Writers :
    LET s == RecordWrites(w)
    IN \E i, j \in 1..Len(s) :
         /\ i < j
         /\ s[i].id[1] > s[j].id[1]
         /\ s[i].part = "EndLine" /\ s[j].part = "EndLine"
         /\ s[i].ticket < s[j].ticket

(***************************************************************************)
(* C14. A below-threshold log call has no effect: a call of mustLog with   *)
(* level < logLevel has acquired nothing, looked up no caller, built no    *)
(* record and written nothing; its steps leave the output target, the      *)
(* sinks and the mutex as they are; and it can return whoever holds the    *)
(* mutex.                                                                  *)
(***************************************************************************)
Suppressed(p) == call[p].op \in LogOps /\ call[p].level < logLevel

SuppressedInv ==
  \A p \in Procs :
    Suppressed(p) =>
      /\ pc[p] = "ret"
      /\ mu # p
      /\ call[p].ticket = 0
      /\ call[p].record = NoRecord
      /\ call[p].wr = NoWriter
      /\ call[p].idx = 0
      /\ \A w \in Writers : WritesOf(w, call[p].id) = <<>>
      /\ ~exited =>
           IF call[p].op = "Fatal" THEN ENABLED FatalExit(p)
           ELSE ENABLED Return(p)

\* A step of a suppressed call: its entry up to the gate, or its return.
SuppressedStep(p) ==
  \/ pc[p] = "idle" /\ pc'[p] = "ret" /\ call'[p].op \in LogOps
     /\ call'[p].level < logLevel
  \/ Suppressed(p) /\ pc[p] = "ret" /\ pc'[p] = "idle"

\* C14: every state satisfies SuppressedInv and no step of a suppressed
\* call changes the output target, a sink, the mutex or the template.
C14_BelowThresholdNoEffect ==
  /\ []SuppressedInv
  /\ [][\A p \in Procs :
          SuppressedStep(p) =>
            UNCHANGED <<output, lastSet, sink, mu,
                        acquired, logRecordTemplate>>]_vars

\* Info stands at the gate's return under threshold Warn while a SetOutput
\* call of the other goroutine holds the mutex.
C14_Witness ==
  /\ logLevel = levelWarn
  /\ \E p, q \in Procs :
       /\ p # q
       /\ call[p].op = "Info" /\ pc[p] = "ret"
       /\ mu = q /\ pc[q] = "so_unlock"

(***************************************************************************)
(* C15. Admitted calls emit exactly one record: a call of Info, Warn,      *)
(* Error or Fatal whose rank is at least the threshold, and a call of      *)
(* Debug in debug mode under threshold Debug, goes on to the mutex and,    *)
(* once Execute has returned, has exactly one complete record on the       *)
(* target that was current, with the tag of its severity and the expanded  *)
(* message; any other call of an entry point returns at a gate and writes  *)
(* nothing.  A call whose write the sink refused has panicked instead.     *)
(***************************************************************************)
RankOf(op) ==
  CASE op = "Debug" -> 0
    [] op = "Info" -> 1
    [] op = "Warn" -> 2
    [] op = "Error" -> 3
    [] op = "Fatal" -> 4

ExpectedLevel(op) ==
  CASE op = "Debug" -> "<CyanBold>DEBUG</CyanBold>"
    [] op = "Info" -> "<GreenBold>INFO </GreenBold>"
    [] op = "Warn" -> "<YellowBold>WARN </YellowBold>"
    [] op = "Error" -> "<RedBold>ERROR</RedBold>"
    [] op = "Fatal" -> "<MagentaBold>FATAL</MagentaBold>"

ExpectedMessage(p) ==
  IF SiteOf(p).args = <<>> THEN "ready" ELSE "user alice logged in"

\* Both gates, from the entry point's name alone.
PassesGates(op) == (op = "Debug" => debugMode) /\ RankOf(op) >= logLevel

\* The texts a call's writes give for one field of the record.
FieldTexts(p, part) ==
  LET ws == WritesOf(Under(call[p].lockedOutput), call[p].id)
  IN SelectSeq(ws, LAMBDA c : c.part = part)

EmitsOne(p) ==
  /\ RecordComplete(p)
  /\ call[p].wr = call[p].lockedOutput
  /\ Len(FieldTexts(p, "EndLine")) = 1
  /\ Len(FieldTexts(p, "Level")) = 1
  /\ FieldTexts(p, "Level")[1].text = ExpectedLevel(call[p].op)
  /\ Len(FieldTexts(p, "Message")) = 1
  /\ FieldTexts(p, "Message")[1].text = ExpectedMessage(p)

C15_ExactlyOneRecord ==
  \A p \in Procs :
    call[p].op \in LevelOps =>
      IF PassesGates(call[p].op)
      THEN /\ pc[p] \in {"lock", "exec", "unlock", "ret", "panicked"}
           /\ pc[p] = "ret" => call[p].op = "Fatal"
           /\ Rendered(p) => EmitsOne(p)
           /\ call[p].panic =>
                /\ call[p].err = errWrite
                /\ Under(call[p].lockedOutput) \in MayFail
      ELSE /\ pc[p] = "ret"
           /\ \A w \in Writers : WritesOf(w, call[p].id) = <<>>

\* In debug mode under threshold Debug a call of Debug has put its one
\* record on the target.
C15_Witness ==
  /\ debugMode
  /\ logLevel = levelDebug
  /\ \E p \in Procs :
       /\ call[p].op = "Debug"
       /\ pc[p] = "unlock"
       /\ ~call[p].panic
       /\ EmitsOne(p)

(***************************************************************************)
(* C16. Shared output state is accessed only under the lock: once the      *)
(* package is initialised, the target is replaced only by a SetOutput call *)
(* that holds the mutex, read only by a mustLog call as it holds the       *)
(* mutex, and written through only by the mustLog call that holds the      *)
(* mutex; at most one call is inside such a section at any time.           *)
(***************************************************************************)
OneInSection ==
  /\ Cardinality({p \in Procs : InSection(p)}) <= 1
  /\ \A p \in Procs : InSection(p) => mu = p

\* The write a step appended to sink w.
Appended(w) == sink'[w][Len(sink'[w])]

UnderLockStep ==
  /\ (log # Nil /\ output' # output) =>
       \E p \in Procs :
         /\ call[p].op = "SetOutput"
         /\ pc[p] = "so_lock" /\ pc'[p] = "so_unlock"
         /\ mu = 0 /\ mu' = p
  /\ \A p \in Procs :
       (pc[p] = "so_lock" /\ pc'[p] = "so_unlock") => (mu = 0 /\ mu' = p)
  /\ \A p \in Procs :
       call'[p].lockedOutput # call[p].lockedOutput =>
         \/ call'[p] = NoCall
         \/ mu = 0 /\ mu' = p /\ call'[p].lockedOutput = output
  /\ \A w \in Writers :
       (sink'[w] # sink[w] /\ Appended(w).op \in LogOps) =>
         /\ mu = Appended(w).id[1]
         /\ mu' = mu
         /\ output' = output
         /\ w = Under(output)

\* C16: at most one call is inside a section of the mutex, and every step
\* that replaces, reads or writes through the target is taken by the call
\* that holds the mutex.
C16_OutputUnderLock ==
  /\ []OneInSection
  /\ [][UnderLockStep]_vars

\* SetOutput(file) holds the mutex, having replaced the target, while a log
\* call of the other goroutine waits for the mutex.
C16_Witness ==
  \E p, q \in Procs :
    /\ pc[p] = "so_unlock" /\ mu = p
    /\ call[p].w = "file" /\ output = NewColorWriter("file")
    /\ pc[q] = "lock" /\ call[q].op \in LevelOps

(***************************************************************************)
(* C17. Invalid severity: for every level that is none of the five         *)
(* severities getLevelTag and getColorLevel end in the invalid-level fault *)
(* and no tag, a call of mustLog with such a level panics with that fault  *)
(* before it writes anything; and no call of a public entry point (Debug,  *)
(* Info, Warn, Error, Fatal, Trace, SetOutput) ever carries such a level   *)
(* or meets that fault.                                                    *)
(***************************************************************************)
LevelRange == (levelDebug - 2)..(levelFatal + 2)
PublicOps == LevelOps \cup {"Trace", "SetOutput"}
Tags == {"DEBUG", "INFO ", "WARN ", "ERROR", "FATAL"}

LookupFaults ==
  \A l \in LevelRange :
    IF l \in Levels
    THEN /\ getLevelTag(l) \in Tags
         /\ getColorLevel(l) # errInvalidLogLevel
    ELSE /\ getLevelTag(l) = errInvalidLogLevel
         /\ getColorLevel(l) = errInvalidLogLevel

C17_InvalidSeverity ==
  /\ LookupFaults
  /\ \A p \in Procs :
       /\ (call[p].level \notin Levels /\ call[p].ticket > 0) =>
            /\ call[p].panic
            /\ call[p].err = errInvalidLogLevel
            /\ pc[p] \in {"unlock", "panicked"}
            /\ call[p].record = NoRecord
            /\ \A w \in Writers : WritesOf(w, call[p].id) = <<>>
       /\ call[p].op \in PublicOps =>
            /\ call[p].level \in Levels
            /\ call[p].err # errInvalidLogLevel
       /\ call[p].err = errInvalidLogLevel =>
            call[p].op = "mustLog" /\ call[p].level \notin Levels

\* A direct call of mustLog with the level above Fatal has met the fault
\* under the mutex while the other goroutine is in a call of a public
\* entry point.
C17_Witness ==
  \E p, q \in Procs :
    /\ call[p].op = "mustLog"
    /\ call[p].level = levelFatal + 1
    /\ pc[p] = "unlock"
    /\ call[p].err = errInvalidLogLevel
    /\ call[q].op \in PublicOps

(***************************************************************************)
(* C18. Caller attribution: every entry point passes call depth 2, and the *)
(* record of its call carries the base name of the file and the line of    *)
(* the frame that called the entry point, never a frame of log.go; when    *)
(* the stack has no frame at that depth the record carries "???" and 0,    *)
(* the call goes on, and once Execute has returned its record is complete. *)
(***************************************************************************)
\* The call of p has built its record.
HasRecord(p) ==
  call[p].op \in LevelOps /\ call[p].ticket > 0 /\ pc[p] # "panicked"

\* The file name and line the record of p is to carry.
CallSiteOf(p) ==
  LET fr == SiteOf(p).frames
  IN IF fr = <<>> THEN [file |-> "???", line |-> 0]
     ELSE [file |-> fr[1].file[Len(fr[1].file)], line |-> fr[1].line]

\* The text a sink holds for one field of the record of p, if it holds it.
OnSink(p, part, text) ==
  \A w \in Writers : \A i \in 1..Len(sink[w]) :
    (sink[w][i].id = call[p].id /\ sink[w][i].part = part) =>
      sink[w][i].text = text

C18_CallerAttribution ==
  \A p \in Procs :
    /\ call[p].op \in LevelOps => call[p].calldepth = 2
    /\ HasRecord(p) =>
         /\ call[p].record.Filename = CallSiteOf(p).file
         /\ call[p].record.LineNo = CallSiteOf(p).line
         /\ call[p].record.Filename # "log.go"
         /\ OnSink(p, "Filename", CallSiteOf(p).file)
         /\ OnSink(p, "LineNo", ToString(CallSiteOf(p).line))
         /\ call[p].err \in {NoErr, errWrite}
         /\ Rendered(p) => RecordComplete(p)

\* A call whose stack has no frame above the entry point has written the
\* sentinel file name and line in a complete verbose record.
C18_Witness ==
  \E p \in Procs :
    /\ debugMode
    /\ SiteOf(p).frames = <<>>
    /\ Rendered(p)
    /\ RecordComplete(p)
    /\ \E w \in Writers : \E i, j \in 1..Len(sink[w]) :
         /\ sink[w][i].id = call[p].id /\ sink[w][j].id = call[p].id
         /\ sink[w][i].part = "Filename" /\ sink[w][i].text = "???"
         /\ sink[w][j].part = "LineNo" /\ sink[w][j].text = "0"

(***************************************************************************)
(* C19. No deadlock or starvation from the logger itself: under fair       *)
(* scheduling, with every Write completing, every call of mustLog and of   *)
(* SetOutput in progress eventually ends (it returns, panics or ends the   *)
(* process); and a call in progress can always take a step unless it       *)
(* stands before l.mu.Lock() while another call is inside its section.     *)
(***************************************************************************)
InCall(p) ==
  /\ call[p].op \in LogOps \cup {"SetOutput"}
  /\ pc[p] \in {"lock", "exec", "unlock", "ret", "so_lock", "so_unlock"}

Waits(p) ==
  /\ pc[p] \in {"lock", "so_lock"}
  /\ mu \notin {0, p}
  /\ InSection(mu)

NoWait ==
  \A p \in Procs :
    (InCall(p) /\ ~exited) =>
      IF Waits(p) THEN ~ENABLED Acquire(p)
      ELSE ENABLED (Continue(p) \/ Acquire(p))

\* C19: a call in progress waits only for a mutex another call holds, and
\* it eventually ends or the process does.
C19_NoStarvation ==
  /\ []NoWait
  /\ \A p \in Procs : InCall(p) ~> (~InCall(p) \/ exited)

\* A log call waits before l.mu.Lock() while the other goroutine's log call
\* is writing its record.
C19_Witness ==
  \E p, q \in Procs :
    /\ Waits(p)
    /\ call[p].op \in LevelOps
    /\ mu = q /\ pc[q] = "exec" /\ call[q].idx > 1

(***************************************************************************)
(* C20. Records against Trace.  Original statement: on standard output no  *)
(* write of a Trace call stands between two writes of one record, so every *)
(* record's bytes are contiguous there.                                    *)
(***************************************************************************)
\* On sink w a write whose operation is in ops stands between two writes
\* of one record.
SplitBy(w, ops) ==
  LET s == sink[w]
  IN \E j \in 1..Len(s) :
       /\ s[j].op \in ops
       /\ \E i \in 1..(j - 1) :
            /\ s[i].op \in LogOps
            /\ s[i].id # s[j].id
            /\ \E k \in (j + 1)..Len(s) : s[k].id = s[i].id

C20_Original == ~SplitBy(Stdout, {"Trace"})

(***************************************************************************)
(* C20, amended.  Trace takes no lock: on standard output a write of a     *)
(* concurrent Trace call can stand between the writes of a record.  What   *)
(* holds: on every sink no write of another log call stands between the    *)
(* writes of a record and the record's writes keep their order; and Trace  *)
(* writes to standard output alone, so a record on any other sink is never *)
(* split by it.                                                            *)
(***************************************************************************)
C20_ContiguousAgainstTrace ==
  /\ \A w \in Writers : ~SplitBy(w, LogOps)
  /\ \A w \in Writers \ {Stdout} :
       /\ ~SplitBy(w, {"Trace"})
       /\ \A i \in 1..Len(sink[w]) : sink[w][i].op # "Trace"
  /\ \A w \in Writers : \A i, k \in 1..Len(sink[w]) :
       (i < k /\ sink[w][i].op \in LogOps /\ sink[w][i].id = sink[w][k].id)
         => sink[w][i].k < sink[w][k].k

\* A log call has its complete record on standard output with a write of
\* the other goroutine's Trace call between two of its writes.
C20_Witness ==
  /\ SplitBy(Stdout, {"Trace"})
  /\ \E p \in Procs :
       /\ Rendered(p)
       /\ RecordComplete(p)
       /\ Under(call[p].wr) = Stdout

====
